---- MODULE Spec2Model ----
(***************************************************************************)
(* A model of the M7 Ethernet slow-path benchmarks:                        *)
(*   scripts/eth_slow_path_m7.py         (dual-link, threads, namespaces)  *)
(*   scripts/can_to_eth_slow_path_m7.py  (single-link, collector only)     *)
(* and of the data feeder of scripts/ml-data-feeder:                       *)
(*   pd_data_generator.py, data_provider_client.py                         *)
(* The main thread of each script is a statement list interpreted by a     *)
(* program counter; worker threads are loops of a loop test and a body.    *)
(* Socket calls and system calls draw their outcome (success, timeout,     *)
(* failure) nondeterministically.                                          *)
(***************************************************************************)
EXTENDS Integers, Sequences, FiniteSets, TLC

VARIABLES
    duplex,                 \* cfg.duplex
    conn_type,              \* cfg.conn_type
    timeout,                \* config.timeout (test length, seconds)
    message_size,           \* config.message_size
    pc,                     \* main thread of eth_slow_path_m7.py: index into Program
    error,                  \* exception that ended the main thread, or "none"
    ns_pc,                  \* position inside netns_socket
    cur_ns,                 \* active network namespace of the calling thread
    ns_before,              \* active namespace when netns_socket was entered
    net_ns,                 \* NetNS.net_ns: handle on the saved namespace
    exc,                    \* exception in flight inside the with block
    sock_ns,                \* M7ETHBenchmark.__sock_ns
    sent_packets_eth,       \* M7ETHBenchmark.__sent_packets_eth
    received_packets_eth,   \* M7ETHBenchmark.__received_packets_eth
    run_sender,             \* M7ETHBenchmark.__run_sender
    run_receiver,           \* M7ETHBenchmark.__run_receiver
    thread,                 \* the threading.Thread objects of run_benchmark
    logfile,                \* content of cfg.logfile[0], cfg.logfile[1]
    can_pc,                 \* main thread of can_to_eth_slow_path_m7.py
    can_error,              \* exception that ended it, or "none"
    can_sock,               \* M7CAN2ETHBenchmark.__sock
    can_received_packets_eth, \* M7CAN2ETHBenchmark.__received_packets_eth
    can_run_receiver,       \* M7CAN2ETHBenchmark.__run_receiver
    can_logfile,            \* content of cfg.logfile
    test_df,                \* pd_get_data: the rows read from the csv file
    stop_after,             \* args.stop_after of pd_data_generator.main
    feed_pc,                \* position in pd_data_generator.main
    engine_i,               \* pd_get_data: engine ids the outer loop has taken
    win_i,                  \* pd_get_data: (start, stop) pairs the inner loop has taken
    sequences,              \* pd_get_data: sequences
    labels,                 \* pd_get_data: labels
    it,                     \* send_all: pairs taken from data_sequence
    count,                  \* send_all: count
    feed_socket,            \* DataProviderClient.__socket
    wire,                   \* what the current connection has carried
    calls,                  \* the (data, label) pairs send_data was called with
    logged                  \* send_data: LOGGER.error was called

cfgVars == <<duplex, conn_type, timeout, message_size>>
nsVars  == <<ns_pc, cur_ns, ns_before, net_ns, exc>>
ethVars == <<pc, error, nsVars, sock_ns, sent_packets_eth, received_packets_eth,
             run_sender, run_receiver, thread, logfile>>
canVars == <<can_pc, can_error, can_sock, can_received_packets_eth,
             can_run_receiver, can_logfile>>
feedVars == <<test_df, stop_after, feed_pc, engine_i, win_i, sequences, labels, it,
              count, feed_socket, wire, calls, logged>>
vars    == <<cfgVars, ethVars, canVars, feedVars>>

(***************************************************************************)
(* Bounds of the model.                                                    *)
(***************************************************************************)
MaxPackets == 2        \* successful sends / receives per counter (dual-link)
MaxCanPackets == 6     \* successful receives (single-link)
MaxTimeout == 2        \* test lengths 1..MaxTimeout
MaxExtra == 2          \* an engine has up to SEQUENCE_LENGTH + MaxExtra cycles
MaxCount == 3          \* --stop-after up to MaxCount

MessageSizes == {64, 1500}
Timeouts     == 1..MaxTimeout

(***************************************************************************)
(* Program constants.                                                      *)
(***************************************************************************)
BITS_IN_MBIT == 1000000
SEQUENCE_LENGTH == 50
BITS_IN_KBIT == 1000

HostNs == "host"

\* Python values of an optional integer argument: None or an int.
PyNone == [none |-> TRUE, val |-> 0]
PyInt(n) == [none |-> FALSE, val |-> n]
\* bool(v) and isinstance(v, int)
Truthy(v) == ~v.none /\ v.val # 0

\* range(a, b), zip(s, t) and the slice m[start:stop] of Python, as 1-based
\* sequences.
Range(a, b) == [i \in 1..(IF b > a THEN b - a ELSE 0) |-> a + i - 1]
Zip(s, t) == [i \in 1..(IF Len(s) < Len(t) THEN Len(s) ELSE Len(t)) |-> <<s[i], t[i]>>]
Slice(m, start, stop) == SubSeq(m, start + 1, stop)

\* config.ns0, config.ns1
NsName(i) == IF i = 0 THEN "nw_ns0" ELSE "nw_ns1"

(***************************************************************************)
(* Python list indexing: a negative index counts from the end.             *)
(***************************************************************************)
PyIndex(i, n) == IF i < 0 THEN i + n ELSE i
At(list, i) == list[PyIndex(i, Len(list)) + 1]
Put(list, i, v) == [list EXCEPT ![PyIndex(i, Len(list)) + 1] = v]

(***************************************************************************)
(* Statements of the main thread.                                          *)
(***************************************************************************)
S(op) == [op |-> op, idx |-> 0, t |-> "", target |-> "", val |-> FALSE,
          cond |-> "always"]

\* M7ETHBenchmark.__init__
M7ETHBenchmark_init ==
    << [S("netns_socket") EXCEPT !.idx = 0],
       [S("netns_socket") EXCEPT !.idx = 1],
       [S("settimeout") EXCEPT !.idx = 0],
       [S("settimeout") EXCEPT !.idx = 1],
       [S("bind") EXCEPT !.idx = 0],
       [S("bind") EXCEPT !.idx = 1],
       [S("connect") EXCEPT !.idx = 1, !.cond = "TCP"],
       [S("connect") EXCEPT !.idx = 0, !.cond = "TCP"],
       S("init_stats") >>

\* StartPhase with the unconditional receiving thread on link 0 and the
\* full-duplex one on link 1.
StartPhaseReceiverOnLink0 ==
    << [S("run_receiver") EXCEPT !.val = TRUE],
       [S("run_sender") EXCEPT !.val = TRUE],
       [S("start") EXCEPT !.t = "receiver_thread_eth0", !.target = "receive_packets",
                          !.idx = 0],
       [S("start") EXCEPT !.t = "receiver_thread_eth1", !.target = "receive_packets",
                          !.idx = 1, !.cond = "full"],
       S("sleep"),
       [S("start") EXCEPT !.t = "sender_thread_eth0", !.target = "send_packets",
                          !.idx = 0],
       [S("start") EXCEPT !.t = "sender_thread_eth1", !.target = "send_packets",
                          !.idx = 1, !.cond = "full"] >>

\* StartPhase with run_sender raised after the warm-up sleep.
StartPhaseFlagAfterWarmUp ==
    << [S("run_receiver") EXCEPT !.val = TRUE],
       [S("start") EXCEPT !.t = "receiver_thread_eth1", !.target = "receive_packets",
                          !.idx = 1],
       [S("start") EXCEPT !.t = "receiver_thread_eth0", !.target = "receive_packets",
                          !.idx = 0, !.cond = "full"],
       S("sleep"),
       [S("run_sender") EXCEPT !.val = TRUE],
       [S("start") EXCEPT !.t = "sender_thread_eth0", !.target = "send_packets",
                          !.idx = 0],
       [S("start") EXCEPT !.t = "sender_thread_eth1", !.target = "send_packets",
                          !.idx = 1, !.cond = "full"] >>

\* StartPhase with the sending threads started first.
StartPhaseSendersFirst ==
    << [S("run_receiver") EXCEPT !.val = TRUE],
       [S("run_sender") EXCEPT !.val = TRUE],
       [S("start") EXCEPT !.t = "sender_thread_eth0", !.target = "send_packets",
                          !.idx = 0],
       [S("start") EXCEPT !.t = "sender_thread_eth1", !.target = "send_packets",
                          !.idx = 1, !.cond = "full"],
       S("sleep"),
       [S("start") EXCEPT !.t = "receiver_thread_eth1", !.target = "receive_packets",
                          !.idx = 1],
       [S("start") EXCEPT !.t = "receiver_thread_eth0", !.target = "receive_packets",
                          !.idx = 0, !.cond = "full"] >>

\* run_benchmark: raise both flags, start the receiving threads, wait, start
\* the sending threads
StartPhase ==
    << [S("run_receiver") EXCEPT !.val = TRUE],
       [S("run_sender") EXCEPT !.val = TRUE],
       [S("start") EXCEPT !.t = "receiver_thread_eth1", !.target = "receive_packets",
                          !.idx = 1],
       [S("start") EXCEPT !.t = "receiver_thread_eth0", !.target = "receive_packets",
                          !.idx = 0, !.cond = "full"],
       S("sleep"),
       [S("start") EXCEPT !.t = "sender_thread_eth0", !.target = "send_packets",
                          !.idx = 0],
       [S("start") EXCEPT !.t = "sender_thread_eth1", !.target = "send_packets",
                          !.idx = 1, !.cond = "full"] >>

\* StopPhase with the receivers stopped first.
StopPhaseReceiversFirst ==
    << S("sleep"),
       [S("run_receiver") EXCEPT !.val = FALSE],
       S("sleep"),
       [S("run_sender") EXCEPT !.val = FALSE] >>

\* run_benchmark: wait while the test is running, stop the senders, wait for
\* in-flight packets, stop the receivers
StopPhase ==
    << S("sleep"),
       [S("run_sender") EXCEPT !.val = FALSE],
       S("sleep"),
       [S("run_receiver") EXCEPT !.val = FALSE] >>

\* JoinPhase that joins receiver_thread_eth1 twice and never receiver_thread_eth0.
JoinPhaseJoinsTwice ==
    << [S("join") EXCEPT !.t = "receiver_thread_eth1"],
       [S("join") EXCEPT !.t = "receiver_thread_eth1", !.cond = "full"],
       [S("join") EXCEPT !.t = "sender_thread_eth1", !.cond = "full"],
       [S("join") EXCEPT !.t = "sender_thread_eth0"] >>

\* JoinPhase without the join of sender_thread_eth0.
JoinPhaseForgetsSender ==
    << [S("join") EXCEPT !.t = "receiver_thread_eth1"],
       [S("join") EXCEPT !.t = "receiver_thread_eth0", !.cond = "full"],
       [S("join") EXCEPT !.t = "sender_thread_eth1", !.cond = "full"] >>

\* run_benchmark: the joins
JoinPhase ==
    << [S("join") EXCEPT !.t = "receiver_thread_eth1"],
       [S("join") EXCEPT !.t = "receiver_thread_eth0", !.cond = "full"],
       [S("join") EXCEPT !.t = "sender_thread_eth1", !.cond = "full"],
       [S("join") EXCEPT !.t = "sender_thread_eth0"] >>

\* run_benchmark: close the sockets, write the results
ReportPhase ==
    << [S("close") EXCEPT !.idx = 0],
       [S("close") EXCEPT !.idx = 1],
       [S("print_test_results") EXCEPT !.idx = 0],
       [S("print_test_results") EXCEPT !.idx = 1, !.cond = "full"] >>

\* M7ETHBenchmark.run_benchmark
run_benchmark == StartPhase \o StopPhase \o JoinPhase \o ReportPhase

\* __main__: M7ETHBenchmark(cfg).run_benchmark()
Program == M7ETHBenchmark_init \o run_benchmark

ThreadNames == {"receiver_thread_eth1", "receiver_thread_eth0",
                "sender_thread_eth0", "sender_thread_eth1"}

NoThread == [st |-> "unstarted", target |-> "", idx |-> 0, joined |-> 0]
NewSocket(ns) == [ns |-> ns, timeout |-> FALSE, bound |-> FALSE,
                  connected |-> FALSE, closed |-> 0]
EmptyFile == [opened |-> FALSE, lines |-> <<>>]

Running == error = "none" /\ pc <= Len(Program)
Cur == Program[pc]
CondHolds(s) == \/ s.cond = "always"
                \/ s.cond = "full" /\ duplex = "full"
                \/ s.cond = "TCP" /\ conn_type = "TCP"
AtStmt(op) == Running /\ Cur.op = op /\ CondHolds(Cur)


(***************************************************************************)
(* Initial state: the interpreter has parsed the command line; no object   *)
(* has been constructed yet.                                               *)
(***************************************************************************)
InitEth ==
    /\ pc = 1
    /\ error = "none"
    /\ ns_pc = "idle"
    /\ cur_ns = HostNs
    /\ ns_before = HostNs
    /\ net_ns = [ref |-> "None", open |-> FALSE]
    /\ exc = "none"
    /\ sock_ns = <<>>
    /\ sent_packets_eth = <<0, 0>>
    /\ received_packets_eth = <<0, 0>>
    /\ run_sender = FALSE
    /\ run_receiver = FALSE
    /\ thread = [t \in ThreadNames |-> NoThread]
    /\ logfile = <<EmptyFile, EmptyFile>>

InitCan ==
    /\ can_pc = "socket"
    /\ can_error = "none"
    /\ can_sock = [created |-> FALSE, timeout |-> 0, bound |-> FALSE, closed |-> 0]
    /\ can_received_packets_eth = 0
    /\ can_run_receiver = FALSE
    /\ can_logfile = EmptyFile

\* pd_data_generator.main before pd_get_data is called, on the csv file df and
\* with --stop-after n.
InitFeedWith(df, n) ==
    /\ test_df = df
    /\ stop_after = n
    /\ feed_pc = "for_engine"
    /\ engine_i = 0
    /\ win_i = 0
    /\ sequences = <<>>
    /\ labels = <<>>
    /\ it = 0
    /\ count = n
    /\ feed_socket = [open |-> FALSE, timeout |-> 0, connected |-> FALSE, closed |-> 0]
    /\ wire = <<>>
    /\ calls = <<>>
    /\ logged = FALSE

\* The data feeder is not part of the benchmark scripts.
InitFeed == InitFeedWith(<<>>, PyNone)

Init ==
    /\ duplex \in {"half", "full"}
    /\ conn_type \in {"UDP", "TCP"}
    /\ timeout \in Timeouts
    /\ message_size \in MessageSizes
    /\ InitEth
    /\ InitCan
    /\ InitFeed

(***************************************************************************)
(* netns_socket and the NetNS context manager.                             *)
(***************************************************************************)
\* NetNS.set_netns: libc.setns either moves the calling thread into the
\* namespace the descriptor refers to (returns 0) or leaves it where it is
\* (returns -1); the wrapper hands the return value back and no caller reads it.
\* `outcomes` in NetNSEnter and NetNSExit is the set of results the system call
\* may have: BOOLEAN in SpecSetup, {TRUE} in Spec.
set_netns(target, ok) == IF ok THEN target ELSE cur_ns

\* netns_socket entry and NetNS.__init__: get_netns_path raises NameError when
\* the namespace path does not exist.
NetNSInit ==
    /\ AtStmt("netns_socket") /\ ns_pc = "idle"
    /\ ns_before' = cur_ns
    /\ \E exists \in BOOLEAN :
         IF exists
         THEN /\ ns_pc' = "enter"
              /\ net_ns' = [ref |-> "None", open |-> FALSE]
              /\ UNCHANGED error
         ELSE /\ error' = "NameError"
              /\ UNCHANGED <<ns_pc, net_ns>>
    /\ UNCHANGED <<pc, cur_ns, exc, sock_ns, sent_packets_eth, received_packets_eth,
                   run_sender, run_receiver, thread, logfile, cfgVars, feedVars, canVars>>

\* NetNS.__enter__: keep a handle on the current namespace, switch to the target.
NetNSEnter(outcomes) ==
    /\ AtStmt("netns_socket") /\ ns_pc = "enter"
    /\ net_ns' = [ref |-> cur_ns, open |-> TRUE]
    /\ \E ok \in outcomes : cur_ns' = set_netns(NsName(Cur.idx), ok)
    /\ ns_pc' = "socket"
    /\ UNCHANGED <<pc, error, ns_before, exc, sock_ns, sent_packets_eth,
                   received_packets_eth, run_sender, run_receiver, thread, logfile,
                   cfgVars, feedVars, canVars>>

\* The body of the with block: socket.socket(*args) in the active namespace.
\* The created socket is the value the with block returns; the caller appends it.
SocketSocket ==
    /\ AtStmt("netns_socket") /\ ns_pc = "socket"
    /\ \E ok \in BOOLEAN :
         IF ok
         THEN /\ sock_ns' = Append(sock_ns, NewSocket(cur_ns))
              /\ exc' = "none"
         ELSE /\ exc' = "OSError"
              /\ UNCHANGED sock_ns
    /\ ns_pc' = "exit"
    /\ UNCHANGED <<pc, error, cur_ns, ns_before, net_ns, sent_packets_eth,
                   received_packets_eth, run_sender, run_receiver, thread, logfile,
                   cfgVars, feedVars, canVars>>

\* NetNS.__exit__: switch back to the saved namespace, close the handle; an
\* exception raised by the body propagates to the caller afterwards.
NetNSExit(outcomes) ==
    /\ AtStmt("netns_socket") /\ ns_pc = "exit"
    /\ \E ok \in outcomes : cur_ns' = set_netns(net_ns.ref, ok)
    /\ net_ns' = [net_ns EXCEPT !.open = FALSE]
    /\ ns_pc' = "idle"
    /\ exc' = "none"
    /\ IF exc = "none"
       THEN pc' = pc + 1 /\ UNCHANGED error
       ELSE error' = exc /\ UNCHANGED pc
    /\ UNCHANGED <<ns_before, sock_ns, sent_packets_eth, received_packets_eth,
                   run_sender, run_receiver, thread, logfile, cfgVars, feedVars, canVars>>

(***************************************************************************)
(* The remaining statements of M7ETHBenchmark.__init__.                    *)
(***************************************************************************)
Settimeout ==
    /\ AtStmt("settimeout")
    /\ sock_ns' = Put(sock_ns, Cur.idx, [At(sock_ns, Cur.idx) EXCEPT !.timeout = TRUE])
    /\ pc' = pc + 1
    /\ UNCHANGED <<error, nsVars, sent_packets_eth, received_packets_eth, run_sender,
                   run_receiver, thread, logfile, cfgVars, feedVars, canVars>>

\* Bind with a failure that is swallowed: the constructor carries on with an
\* unbound socket.
BindSwallowsFailure ==
    /\ AtStmt("bind")
    /\ \E ok \in BOOLEAN :
         sock_ns' = Put(sock_ns, Cur.idx, [At(sock_ns, Cur.idx) EXCEPT !.bound = ok])
    /\ pc' = pc + 1
    /\ UNCHANGED <<error, nsVars, sent_packets_eth, received_packets_eth, run_sender,
                   run_receiver, thread, logfile, cfgVars, feedVars, canVars>>

Bind ==
    /\ AtStmt("bind")
    /\ \E ok \in BOOLEAN :
         IF ok
         THEN /\ sock_ns' = Put(sock_ns, Cur.idx,
                                [At(sock_ns, Cur.idx) EXCEPT !.bound = TRUE])
              /\ pc' = pc + 1
              /\ UNCHANGED error
         ELSE /\ error' = "OSError"
              /\ UNCHANGED <<pc, sock_ns>>
    /\ UNCHANGED <<nsVars, sent_packets_eth, received_packets_eth, run_sender,
                   run_receiver, thread, logfile, cfgVars, feedVars, canVars>>

Connect ==
    /\ AtStmt("connect")
    /\ \E ok \in BOOLEAN :
         IF ok
         THEN /\ sock_ns' = Put(sock_ns, Cur.idx,
                                [At(sock_ns, Cur.idx) EXCEPT !.connected = TRUE])
              /\ pc' = pc + 1
              /\ UNCHANGED error
         ELSE /\ error' = "OSError"
              /\ UNCHANGED <<pc, sock_ns>>
    /\ UNCHANGED <<nsVars, sent_packets_eth, received_packets_eth, run_sender,
                   run_receiver, thread, logfile, cfgVars, feedVars, canVars>>

\* Statistics and synchronization variables.
InitStats ==
    /\ AtStmt("init_stats")
    /\ sent_packets_eth' = <<0, 0>>
    /\ received_packets_eth' = <<0, 0>>
    /\ run_sender' = FALSE
    /\ run_receiver' = FALSE
    /\ pc' = pc + 1
    /\ UNCHANGED <<error, nsVars, sock_ns, thread, logfile, cfgVars, feedVars, canVars>>

\* An if statement whose condition is false.
SkipIf ==
    /\ Running /\ ~CondHolds(Cur)
    /\ pc' = pc + 1
    /\ UNCHANGED <<error, nsVars, sock_ns, sent_packets_eth, received_packets_eth,
                   run_sender, run_receiver, thread, logfile, cfgVars, feedVars, canVars>>

(***************************************************************************)
(* M7ETHBenchmark.run_benchmark: the statements of the main thread.        *)
(***************************************************************************)
SetRunReceiver ==
    /\ AtStmt("run_receiver")
    /\ run_receiver' = Cur.val
    /\ pc' = pc + 1
    /\ UNCHANGED <<error, nsVars, sock_ns, sent_packets_eth, received_packets_eth,
                   run_sender, thread, logfile, cfgVars, feedVars, canVars>>

SetRunSender ==
    /\ AtStmt("run_sender")
    /\ run_sender' = Cur.val
    /\ pc' = pc + 1
    /\ UNCHANGED <<error, nsVars, sock_ns, sent_packets_eth, received_packets_eth,
                   run_receiver, thread, logfile, cfgVars, feedVars, canVars>>

\* threading.Thread(target=..., args=(idx, ...)) followed by start()
ThreadStart ==
    /\ AtStmt("start")
    /\ thread' = [thread EXCEPT ![Cur.t] = [st |-> "test", target |-> Cur.target,
                                            idx |-> Cur.idx, joined |-> 0]]
    /\ pc' = pc + 1
    /\ UNCHANGED <<error, nsVars, sock_ns, sent_packets_eth, received_packets_eth,
                   run_sender, run_receiver, logfile, cfgVars, feedVars, canVars>>

\* time.sleep: the warm-up, the test length, the wait for in-flight packets
Sleep ==
    /\ AtStmt("sleep")
    /\ pc' = pc + 1
    /\ UNCHANGED <<error, nsVars, sock_ns, sent_packets_eth, received_packets_eth,
                   run_sender, run_receiver, thread, logfile, cfgVars, feedVars, canVars>>

\* Thread.join blocks until the thread has terminated; joining a thread that was
\* never started raises RuntimeError.
ThreadJoin ==
    /\ AtStmt("join")
    /\ thread[Cur.t].st \in {"unstarted", "done"}
    /\ IF thread[Cur.t].st = "done"
       THEN /\ thread' = [thread EXCEPT ![Cur.t].joined = @ + 1]
            /\ pc' = pc + 1
            /\ UNCHANGED error
       ELSE /\ error' = "RuntimeError"
            /\ UNCHANGED <<pc, thread>>
    /\ UNCHANGED <<nsVars, sock_ns, sent_packets_eth, received_packets_eth,
                   run_sender, run_receiver, logfile, cfgVars, feedVars, canVars>>

SockClose ==
    /\ AtStmt("close")
    /\ sock_ns' = Put(sock_ns, Cur.idx, [At(sock_ns, Cur.idx) EXCEPT !.closed = @ + 1])
    /\ pc' = pc + 1
    /\ UNCHANGED <<error, nsVars, sent_packets_eth, received_packets_eth, run_sender,
                   run_receiver, thread, logfile, cfgVars, feedVars, canVars>>

(***************************************************************************)
(* M7ETHBenchmark.print_test_results.  A float quotient n / d is kept as   *)
(* the pair of its numerator and denominator.                              *)
(***************************************************************************)
Ratio(n, d) == [num |-> n, den |-> d]
Line(key, val) == [key |-> key, val |-> val]
NoTxWarning == "No packets have been transmitted. Please check your connections"
NoRxWarning == "No packets have been received. Please check your connections"

\* print_test_results reading the received counter of link idx itself.
print_test_results_same_link(idx) ==
    LET sent_packets == At(sent_packets_eth, idx)
        recv_packets == At(received_packets_eth, idx)
        lost_packets == Ratio((sent_packets - recv_packets) * 100, sent_packets)
        bandwidth    == Ratio(recv_packets * message_size * 8, timeout * BITS_IN_MBIT)
    IN  IF sent_packets = 0 \/ timeout * BITS_IN_MBIT = 0
        THEN [raised |-> "ZeroDivisionError",
              file   |-> [opened |-> TRUE, lines |-> <<>>]]
        ELSE [raised |-> "none",
              file   |-> [opened |-> TRUE,
                          lines  |-> << Line("Test execution time", timeout),
                                        Line("Input packet size", message_size),
                                        Line("Injected packets", sent_packets),
                                        Line("Received packets", recv_packets),
                                        Line("Lost packets", lost_packets),
                                        Line("Bandwidth", bandwidth) >>
                                     \o (IF sent_packets = 0
                                         THEN <<Line(NoTxWarning, 0)>> ELSE <<>>)
                                     \o (IF recv_packets = 0
                                         THEN <<Line(NoRxWarning, 0)>> ELSE <<>>)]]

\* The result of print_test_results(idx): the exception it raises, if any, and
\* the content of cfg.logfile[idx] when it returns or raises.
print_test_results(idx) ==
    LET sent_packets == At(sent_packets_eth, idx)
        recv_packets == At(received_packets_eth, idx - 1)
        lost_packets == Ratio((sent_packets - recv_packets) * 100, sent_packets)
        bandwidth    == Ratio(recv_packets * message_size * 8, timeout * BITS_IN_MBIT)
    IN  IF sent_packets = 0 \/ timeout * BITS_IN_MBIT = 0
        THEN [raised |-> "ZeroDivisionError",
              file   |-> [opened |-> TRUE, lines |-> <<>>]]
        ELSE [raised |-> "none",
              file   |-> [opened |-> TRUE,
                          lines  |-> << Line("Test execution time", timeout),
                                        Line("Input packet size", message_size),
                                        Line("Injected packets", sent_packets),
                                        Line("Received packets", recv_packets),
                                        Line("Lost packets", lost_packets),
                                        Line("Bandwidth", bandwidth) >>
                                     \o (IF sent_packets = 0
                                         THEN <<Line(NoTxWarning, 0)>> ELSE <<>>)
                                     \o (IF recv_packets = 0
                                         THEN <<Line(NoRxWarning, 0)>> ELSE <<>>)]]

\* PrintTestResults that clears the counters of the link once they are written.
PrintTestResultsResetsCounters ==
    /\ AtStmt("print_test_results")
    /\ LET r == print_test_results(Cur.idx)
       IN  /\ logfile' = Put(logfile, Cur.idx, r.file)
           /\ IF r.raised = "none"
              THEN pc' = pc + 1 /\ UNCHANGED error
              ELSE error' = r.raised /\ UNCHANGED pc
    /\ sent_packets_eth' = Put(sent_packets_eth, Cur.idx, 0)
    /\ received_packets_eth' = Put(received_packets_eth, Cur.idx - 1, 0)
    /\ UNCHANGED <<nsVars, sock_ns, run_sender, run_receiver, thread, cfgVars, feedVars, canVars>>

PrintTestResults ==
    /\ AtStmt("print_test_results")
    /\ LET r == print_test_results(Cur.idx)
       IN  /\ logfile' = Put(logfile, Cur.idx, r.file)
           /\ IF r.raised = "none"
              THEN pc' = pc + 1 /\ UNCHANGED error
              ELSE error' = r.raised /\ UNCHANGED pc
    /\ UNCHANGED <<nsVars, sock_ns, sent_packets_eth, received_packets_eth, run_sender,
                   run_receiver, thread, cfgVars, feedVars, canVars>>

(***************************************************************************)
(* The worker threads: __send_packets and __receive_packets.               *)
(***************************************************************************)
SocketClosed(idx) == At(sock_ns, idx).closed > 0

\* SendTest with a loop condition that is always true.
SendTestIgnoresFlag(t) ==
    /\ thread[t].st = "test" /\ thread[t].target = "send_packets"
    /\ thread' = [thread EXCEPT ![t].st = "body"]
    /\ UNCHANGED <<pc, error, nsVars, sock_ns, sent_packets_eth, received_packets_eth,
                   run_sender, run_receiver, logfile, cfgVars, feedVars, canVars>>

\* while self.__run_sender:
SendTest(t) ==
    /\ thread[t].st = "test" /\ thread[t].target = "send_packets"
    /\ thread' = [thread EXCEPT ![t].st = IF run_sender THEN "body" ELSE "done"]
    /\ UNCHANGED <<pc, error, nsVars, sock_ns, sent_packets_eth, received_packets_eth,
                   run_sender, run_receiver, logfile, cfgVars, feedVars, canVars>>

\* SendBody in which a timeout ends the loop.
SendBodyTimeoutStops(t) ==
    /\ thread[t].st = "body" /\ thread[t].target = "send_packets"
    /\ IF SocketClosed(thread[t].idx)
       THEN /\ thread' = [thread EXCEPT ![t].st = "done"]
            /\ UNCHANGED sent_packets_eth
       ELSE \E outcome \in {"sent", "timeout"} :
                 IF outcome = "sent"
                 THEN /\ At(sent_packets_eth, thread[t].idx) < MaxPackets
                      /\ sent_packets_eth' =
                           Put(sent_packets_eth, thread[t].idx,
                               At(sent_packets_eth, thread[t].idx) + 1)
                      /\ thread' = [thread EXCEPT ![t].st = "test"]
                 ELSE /\ UNCHANGED sent_packets_eth
                      /\ thread' = [thread EXCEPT ![t].st = "done"]
    /\ UNCHANGED <<pc, error, nsVars, sock_ns, received_packets_eth, run_sender,
                   run_receiver, logfile, cfgVars, feedVars, canVars>>

\* SendBody in which a timeout clears run_sender.
SendBodyClearsFlag(t) ==
    /\ thread[t].st = "body" /\ thread[t].target = "send_packets"
    /\ IF SocketClosed(thread[t].idx)
       THEN /\ thread' = [thread EXCEPT ![t].st = "done"]
            /\ UNCHANGED <<sent_packets_eth, run_sender>>
       ELSE /\ thread' = [thread EXCEPT ![t].st = "test"]
            /\ \E outcome \in {"sent", "timeout"} :
                 IF outcome = "sent"
                 THEN /\ At(sent_packets_eth, thread[t].idx) < MaxPackets
                      /\ sent_packets_eth' =
                           Put(sent_packets_eth, thread[t].idx,
                               At(sent_packets_eth, thread[t].idx) + 1)
                      /\ UNCHANGED run_sender
                 ELSE /\ UNCHANGED sent_packets_eth
                      /\ run_sender' = FALSE
    /\ UNCHANGED <<pc, error, nsVars, sock_ns, received_packets_eth,
                   run_receiver, logfile, cfgVars, feedVars, canVars>>

\* SendBody that counts the packet on the neighbouring index, idx - 1.
SendBodyWrongLink(t) ==
    /\ thread[t].st = "body" /\ thread[t].target = "send_packets"
    /\ IF SocketClosed(thread[t].idx)
       THEN /\ thread' = [thread EXCEPT ![t].st = "done"]
            /\ UNCHANGED sent_packets_eth
       ELSE /\ thread' = [thread EXCEPT ![t].st = "test"]
            /\ \E outcome \in {"sent", "timeout"} :
                 IF outcome = "sent"
                 THEN /\ At(sent_packets_eth, thread[t].idx - 1) < MaxPackets
                      /\ sent_packets_eth' =
                           Put(sent_packets_eth, thread[t].idx - 1,
                               At(sent_packets_eth, thread[t].idx - 1) + 1)
                 ELSE UNCHANGED sent_packets_eth
    /\ UNCHANGED <<pc, error, nsVars, sock_ns, received_packets_eth, run_sender,
                   run_receiver, logfile, cfgVars, feedVars, canVars>>

\* sendto, count the packet unless the call timed out, sleep.  A call on a
\* closed socket raises OSError, which ends the thread.
SendBody(t) ==
    /\ thread[t].st = "body" /\ thread[t].target = "send_packets"
    /\ IF SocketClosed(thread[t].idx)
       THEN /\ thread' = [thread EXCEPT ![t].st = "done"]
            /\ UNCHANGED sent_packets_eth
       ELSE /\ thread' = [thread EXCEPT ![t].st = "test"]
            /\ \E outcome \in {"sent", "timeout"} :
                 IF outcome = "sent"
                 THEN /\ At(sent_packets_eth, thread[t].idx) < MaxPackets
                      /\ sent_packets_eth' =
                           Put(sent_packets_eth, thread[t].idx,
                               At(sent_packets_eth, thread[t].idx) + 1)
                 ELSE UNCHANGED sent_packets_eth
    /\ UNCHANGED <<pc, error, nsVars, sock_ns, received_packets_eth, run_sender,
                   run_receiver, logfile, cfgVars, feedVars, canVars>>

\* while self.__run_receiver:
ReceiveTest(t) ==
    /\ thread[t].st = "test" /\ thread[t].target = "receive_packets"
    /\ thread' = [thread EXCEPT ![t].st = IF run_receiver THEN "body" ELSE "done"]
    /\ UNCHANGED <<pc, error, nsVars, sock_ns, sent_packets_eth, received_packets_eth,
                   run_sender, run_receiver, logfile, cfgVars, feedVars, canVars>>

\* ReceiveBody with the single-link policy: a timeout clears run_receiver.
ReceiveBodyStopsOnTimeout(t) ==
    /\ thread[t].st = "body" /\ thread[t].target = "receive_packets"
    /\ IF SocketClosed(thread[t].idx)
       THEN /\ thread' = [thread EXCEPT ![t].st = "done"]
            /\ UNCHANGED <<received_packets_eth, run_receiver>>
       ELSE /\ thread' = [thread EXCEPT ![t].st = "test"]
            /\ \E outcome \in {"received", "timeout"} :
                 IF outcome = "received"
                 THEN /\ At(received_packets_eth, thread[t].idx) < MaxPackets
                      /\ received_packets_eth' =
                           Put(received_packets_eth, thread[t].idx,
                               At(received_packets_eth, thread[t].idx) + 1)
                      /\ UNCHANGED run_receiver
                 ELSE /\ UNCHANGED received_packets_eth
                      /\ run_receiver' = FALSE
    /\ UNCHANGED <<pc, error, nsVars, sock_ns, sent_packets_eth, run_sender,
                   logfile, cfgVars, feedVars, canVars>>

\* recvfrom, count the packet unless the call timed out.
ReceiveBody(t) ==
    /\ thread[t].st = "body" /\ thread[t].target = "receive_packets"
    /\ IF SocketClosed(thread[t].idx)
       THEN /\ thread' = [thread EXCEPT ![t].st = "done"]
            /\ UNCHANGED received_packets_eth
       ELSE /\ thread' = [thread EXCEPT ![t].st = "test"]
            /\ \E outcome \in {"received", "timeout"} :
                 IF outcome = "received"
                 THEN /\ At(received_packets_eth, thread[t].idx) < MaxPackets
                      /\ received_packets_eth' =
                           Put(received_packets_eth, thread[t].idx,
                               At(received_packets_eth, thread[t].idx) + 1)
                 ELSE UNCHANGED received_packets_eth
    /\ UNCHANGED <<pc, error, nsVars, sock_ns, sent_packets_eth, run_sender,
                   run_receiver, logfile, cfgVars, feedVars, canVars>>

(***************************************************************************)
(* can_to_eth_slow_path_m7.py: M7CAN2ETHBenchmark, single-threaded.        *)
(***************************************************************************)
\* M7CAN2ETHBenchmark.__init__: socket.socket
CanSocket ==
    /\ can_error = "none" /\ can_pc = "socket"
    /\ \E ok \in BOOLEAN :
         IF ok
         THEN can_sock' = [can_sock EXCEPT !.created = TRUE] /\ can_pc' = "settimeout"
              /\ UNCHANGED can_error
         ELSE can_error' = "OSError" /\ UNCHANGED <<can_sock, can_pc>>
    /\ UNCHANGED <<can_received_packets_eth, can_run_receiver, can_logfile,
                   cfgVars, feedVars, ethVars>>

\* settimeout(config.timeout + 5)
CanSettimeout ==
    /\ can_error = "none" /\ can_pc = "settimeout"
    /\ can_sock' = [can_sock EXCEPT !.timeout = timeout + 5]
    /\ can_pc' = "bind"
    /\ UNCHANGED <<can_error, can_received_packets_eth, can_run_receiver, can_logfile,
                   cfgVars, feedVars, ethVars>>

\* bind, then the statistics and the synchronization variable
CanBind ==
    /\ can_error = "none" /\ can_pc = "bind"
    /\ \E ok \in BOOLEAN :
         IF ok
         THEN /\ can_sock' = [can_sock EXCEPT !.bound = TRUE]
              /\ can_received_packets_eth' = 0
              /\ can_run_receiver' = FALSE
              /\ can_pc' = "run_benchmark"
              /\ UNCHANGED can_error
         ELSE /\ can_error' = "OSError"
              /\ UNCHANGED <<can_sock, can_pc, can_received_packets_eth,
                             can_run_receiver>>
    /\ UNCHANGED <<can_logfile, cfgVars, feedVars, ethVars>>

\* run_benchmark: self.__run_receiver = True; self.__receive_packets()
CanSetRunReceiver ==
    /\ can_error = "none" /\ can_pc = "run_benchmark"
    /\ can_run_receiver' = TRUE
    /\ can_pc' = "test"
    /\ UNCHANGED <<can_error, can_sock, can_received_packets_eth, can_logfile,
                   cfgVars, feedVars, ethVars>>

\* __receive_packets: while self.__run_receiver:
CanReceiveTest ==
    /\ can_error = "none" /\ can_pc = "test"
    /\ can_pc' = IF can_run_receiver THEN "body" ELSE "close"
    /\ UNCHANGED <<can_error, can_sock, can_received_packets_eth, can_run_receiver,
                   can_logfile, cfgVars, feedVars, ethVars>>

\* The loop body with the dual-link policy: a timeout is passed over.
can_receive_packets_pass(outcome) ==
    IF outcome = "received"
    THEN [received |-> can_received_packets_eth + 1, run |-> can_run_receiver]
    ELSE [received |-> can_received_packets_eth, run |-> can_run_receiver]

\* The effect of one loop body on (received, run_receiver), by recvfrom's outcome.
can_receive_packets(outcome) ==
    IF outcome = "received"
    THEN [received |-> can_received_packets_eth + 1, run |-> can_run_receiver]
    ELSE [received |-> can_received_packets_eth, run |-> FALSE]

\* __receive_packets: recvfrom; count the packet, or stop on socket.timeout
CanReceiveBody ==
    /\ can_error = "none" /\ can_pc = "body"
    /\ \E outcome \in {"received", "timeout"} :
         /\ outcome = "received" => can_received_packets_eth < MaxCanPackets
         /\ can_received_packets_eth' = can_receive_packets(outcome).received
         /\ can_run_receiver' = can_receive_packets(outcome).run
    /\ can_pc' = "test"
    /\ UNCHANGED <<can_error, can_sock, can_logfile, cfgVars, feedVars, ethVars>>

\* run_benchmark: self.__sock.close()
CanClose ==
    /\ can_error = "none" /\ can_pc = "close"
    /\ can_sock' = [can_sock EXCEPT !.closed = @ + 1]
    /\ can_pc' = "print_test_results"
    /\ UNCHANGED <<can_error, can_received_packets_eth, can_run_receiver, can_logfile,
                   cfgVars, feedVars, ethVars>>

\* M7CAN2ETHBenchmark.print_test_results: int() of a non-negative quotient
\* truncates, which is integer division.
can_print_test_results ==
    LET recv_packets == can_received_packets_eth
        recv_data_transfer == recv_packets * message_size
    IN  IF timeout * BITS_IN_KBIT = 0 \/ timeout = 0
        THEN [raised |-> "ZeroDivisionError",
              file   |-> [opened |-> TRUE, lines |-> <<>>]]
        ELSE [raised |-> "none",
              file   |-> [opened |-> TRUE,
                          lines  |-> << Line("Rx frames", recv_packets),
                                        Line("Rx data transfer", recv_data_transfer),
                                        Line("Rx frames/s", recv_packets \div timeout),
                                        Line("Rx throughput",
                                             (recv_data_transfer * 8)
                                               \div (timeout * BITS_IN_KBIT)) >>]]

CanPrintTestResults ==
    /\ can_error = "none" /\ can_pc = "print_test_results"
    /\ can_logfile' = can_print_test_results.file
    /\ IF can_print_test_results.raised = "none"
       THEN can_pc' = "done" /\ UNCHANGED can_error
       ELSE can_error' = can_print_test_results.raised /\ UNCHANGED can_pc
    /\ UNCHANGED <<can_sock, can_received_packets_eth, can_run_receiver,
                   cfgVars, feedVars, ethVars>>

(***************************************************************************)
(* ml-data-feeder: pd_data_generator.py and data_provider_client.py.       *)
(* A row of the csv file keeps the engine id, two of the 25 feature        *)
(* columns (cycle_norm, standing for the cycle number, and one sensor      *)
(* column, standing for the readings of that engine) and the RUL column.   *)
(***************************************************************************)
FLOAT_PRECISION == 6
sequence_cols == <<"cycle_norm", "s1">>

\* The csv files read: two engines, rows in cycle order, RUL counting down to
\* r at the last cycle of each engine.
EngineRows(e, n, r) ==
    [c \in 1..n |-> [id |-> e, cycle_norm |-> c, s1 |-> e, RUL |-> (n - c) + r]]
EngineSizes == (SEQUENCE_LENGTH - 1)..(SEQUENCE_LENGTH + MaxExtra)
Datasets == {EngineRows(1, a, r) \o EngineRows(2, b, r) :
               a \in EngineSizes, b \in EngineSizes, r \in {0, 1}}
StopAfters == {PyNone} \cup {PyInt(n) : n \in (-1)..MaxCount}

\* Series.unique(): the values in order of first appearance.
unique(col) ==
    LET first == SelectSeq([i \in DOMAIN col |-> i],
                           LAMBDA i : \A j \in 1..(i - 1) : col[j] # col[i])
    IN  [k \in DOMAIN first |-> col[first[k]]]
Column(df, c) == [i \in DOMAIN df |-> df[i][c]]
Columns(df, cs) == [i \in DOMAIN df |-> [j \in DOMAIN cs |-> df[i][cs[j]]]]
Where(df, c, v) == SelectSeq(df, LAMBDA row : row[c] = v)

\* The locals of pd_get_data's outer loop for the engine id taken last.
engine_id == unique(Column(test_df, "id"))[engine_i]
engine_cycles == Where(test_df, "id", engine_id)
data_matrix == Columns(engine_cycles, sequence_cols)
engine_cycles_rul == Column(engine_cycles, "RUL")
num_elements == Len(data_matrix)
windows == Zip(Range(0, num_elements - SEQUENCE_LENGTH),
               Range(SEQUENCE_LENGTH, num_elements))

\* for engine_id in test_df['id'].unique(): engines of SEQUENCE_LENGTH cycles
\* or fewer are skipped.
PdForEngine ==
    /\ feed_pc = "for_engine"
    /\ engine_i < Len(unique(Column(test_df, "id")))
    /\ engine_i' = engine_i + 1
    /\ win_i' = 0
    /\ LET id == unique(Column(test_df, "id"))[engine_i + 1]
       IN  feed_pc' = IF Len(Where(test_df, "id", id)) <= SEQUENCE_LENGTH
                      THEN "for_engine" ELSE "for_window"
    /\ UNCHANGED <<test_df, stop_after, sequences, labels, it, count, feed_socket, wire,
                   calls, logged, cfgVars, ethVars, canVars>>

\* for start, stop in zip(range(...), range(...)): one window and its label.
PdForWindow ==
    /\ feed_pc = "for_window"
    /\ IF win_i < Len(windows)
       THEN LET start == windows[win_i + 1][1]
                stop  == windows[win_i + 1][2]
            IN  /\ sequences' = Append(sequences, Slice(data_matrix, start, stop))
                /\ labels' = Append(labels, engine_cycles_rul[stop + 1])
                /\ win_i' = win_i + 1
                /\ UNCHANGED feed_pc
       ELSE /\ feed_pc' = "for_engine"
            /\ UNCHANGED <<sequences, labels, win_i>>
    /\ UNCHANGED <<test_df, stop_after, engine_i, it, count, feed_socket, wire, calls,
                   logged, cfgVars, ethVars, canVars>>

\* pd_get_data returns the generator over zip(seq_array, label_array) and
\* main calls send_all(args.stop_after) on it.
data_sequence == Zip(sequences, labels)
PdReturn ==
    /\ feed_pc = "for_engine"
    /\ engine_i = Len(unique(Column(test_df, "id")))
    /\ feed_pc' = "send_all"
    /\ count' = stop_after
    /\ UNCHANGED <<test_df, stop_after, engine_i, win_i, sequences, labels, it,
                   feed_socket, wire, calls, logged, cfgVars, ethVars, canVars>>

(***************************************************************************)
(* DataProviderClient.send_data and send_all.  Text is a sequence of       *)
(* one-character strings.                                                  *)
(***************************************************************************)
Digits == <<"0", "1", "2", "3", "4", "5", "6", "7", "8", "9">>

\* str(n) of an integer.
RECURSIVE str(_)
str(n) == IF n < 0 THEN <<"-">> \o str(-n)
          ELSE IF n < 10 THEN <<Digits[n + 1]>>
          ELSE str(n \div 10) \o <<Digits[(n % 10) + 1]>>

\* A whole number in floatmode='fixed' with FLOAT_PRECISION decimals.
Fixed(n) == str(n) \o <<".">> \o [i \in 1..FLOAT_PRECISION |-> "0"]

\* ndarray.flatten() of a two-dimensional array: row-major order.
flatten(m) ==
    IF m = <<>> THEN <<>>
    ELSE LET cols == Len(m[1])
         IN  [k \in 1..(Len(m) * cols) |-> m[((k - 1) \div cols) + 1][((k - 1) % cols) + 1]]

\* sep.join(words)
RECURSIVE join(_, _)
join(sep, words) ==
    IF words = <<>> THEN <<>>
    ELSE IF Len(words) = 1 THEN words[1]
    ELSE LET half == Len(words) \div 2
         IN  join(sep, SubSeq(words, 1, half)) \o sep
               \o join(sep, SubSeq(words, half + 1, Len(words)))

\* ' '.join(np.array2string(data.flatten(), ...)[1:-1].split()).encode()
DataPayload(data) ==
    LET flat == flatten(data)
    IN  join(<<" ">>, [i \in DOMAIN flat |-> Fixed(flat[i])])
\* str(label).encode()
LabelPayload(label) == str(label)
\* struct.pack("i", n)
struct_pack(n) == [fmt |-> "i", val |-> n]

\* The arguments of the send_data call in progress.
data  == data_sequence[it][1]
label == data_sequence[it][2]

\* send_all: for data, label in self.data_sequence: self.send_data(data, label)
SendAllFor ==
    /\ feed_pc = "send_all"
    /\ IF it < Len(data_sequence)
       THEN /\ it' = it + 1
            /\ calls' = Append(calls, it + 1)
            /\ feed_pc' = "socket"
       ELSE /\ feed_pc' = "done"
            /\ UNCHANGED <<it, calls>>
    /\ UNCHANGED <<test_df, stop_after, engine_i, win_i, sequences, labels, count,
                   feed_socket, wire, logged, cfgVars, ethVars, canVars>>

\* send_data: socket.socket(...) and settimeout(socket_timeout), before the try
\* block.
SdSocket ==
    /\ feed_pc = "socket"
    /\ feed_socket' = [open |-> TRUE, timeout |-> 1, connected |-> FALSE, closed |-> 0]
    /\ wire' = <<>>
    /\ logged' = FALSE
    /\ feed_pc' = "connect"
    /\ UNCHANGED <<test_df, stop_after, engine_i, win_i, sequences, labels, it, count,
                   calls, cfgVars, ethVars, canVars>>

\* send_data: connect; a failure is caught, logged, and leads to the finally
\* block.
SdConnect ==
    /\ feed_pc = "connect"
    /\ \E ok \in BOOLEAN :
         IF ok THEN /\ feed_socket' = [feed_socket EXCEPT !.connected = TRUE]
                    /\ feed_pc' = "sendall_size"
                    /\ UNCHANGED logged
               ELSE /\ logged' = TRUE
                    /\ feed_pc' = "close"
                    /\ UNCHANGED feed_socket
    /\ UNCHANGED <<test_df, stop_after, engine_i, win_i, sequences, labels, it, count,
                   wire, calls, cfgVars, ethVars, canVars>>

\* What the sendall call at each position sends, and the position after it.
SendallPositions ==
    {"sendall_size", "sendall_payload", "sendall_label_size", "sendall_label_payload"}
Sending(pos) ==
    CASE pos = "sendall_size" ->
           [msg |-> struct_pack(Len(DataPayload(data))), next |-> "sendall_payload"]
      [] pos = "sendall_payload" ->
           [msg |-> DataPayload(data), next |-> "if_label"]
      [] pos = "sendall_label_size" ->
           [msg |-> struct_pack(Len(LabelPayload(label))), next |-> "sendall_label_payload"]
      [] pos = "sendall_label_payload" ->
           [msg |-> LabelPayload(label), next |-> "close"]

\* send_data: one sendall call; a failure is caught, logged, and leads to the
\* finally block.
SdSendall ==
    /\ feed_pc \in SendallPositions
    /\ \E ok \in BOOLEAN :
         IF ok THEN /\ wire' = Append(wire, Sending(feed_pc).msg)
                    /\ feed_pc' = Sending(feed_pc).next
                    /\ UNCHANGED logged
               ELSE /\ logged' = TRUE
                    /\ feed_pc' = "close"
                    /\ UNCHANGED wire
    /\ UNCHANGED <<test_df, stop_after, engine_i, win_i, sequences, labels, it, count,
                   feed_socket, calls, cfgVars, ethVars, canVars>>

\* send_data: if label: a numeric label is true unless it is zero.
SdIfLabel ==
    /\ feed_pc = "if_label"
    /\ feed_pc' = IF label # 0 THEN "sendall_label_size" ELSE "close"
    /\ UNCHANGED <<test_df, stop_after, engine_i, win_i, sequences, labels, it, count,
                   feed_socket, wire, calls, logged, cfgVars, ethVars, canVars>>

\* send_data: finally: self.__socket.close()
SdClose ==
    /\ feed_pc = "close"
    /\ feed_socket' = [feed_socket EXCEPT !.closed = @ + 1, !.connected = FALSE]
    /\ feed_pc' = "sleep"
    /\ UNCHANGED <<test_df, stop_after, engine_i, win_i, sequences, labels, it, count,
                   wire, calls, logged, cfgVars, ethVars, canVars>>

\* SendAllCount that leaves the loop once count is below zero.
SendAllCountBelowZero ==
    /\ feed_pc = "sleep"
    /\ IF Truthy(count)
       THEN /\ count' = PyInt(count.val - 1)
            /\ feed_pc' = IF count.val - 1 < 0 THEN "done" ELSE "send_all"
       ELSE /\ feed_pc' = "send_all"
            /\ UNCHANGED count
    /\ UNCHANGED <<test_df, stop_after, engine_i, win_i, sequences, labels, it,
                   feed_socket, wire, calls, logged, cfgVars, ethVars, canVars>>

\* send_all: sleep(time_step), then count down and leave the loop at zero.
SendAllCount ==
    /\ feed_pc = "sleep"
    /\ IF Truthy(count)
       THEN /\ count' = PyInt(count.val - 1)
            /\ feed_pc' = IF count.val - 1 <= 0 THEN "done" ELSE "send_all"
       ELSE /\ feed_pc' = "send_all"
            /\ UNCHANGED count
    /\ UNCHANGED <<test_df, stop_after, engine_i, win_i, sequences, labels, it,
                   feed_socket, wire, calls, logged, cfgVars, ethVars, canVars>>

(***************************************************************************)
(* Specifications.                                                         *)
(*   Spec       the dual-link benchmark, __init__ and run_benchmark, with  *)
(*              every setns call succeeding                                *)
(*   SpecSetup  M7ETHBenchmark.__init__ alone, setns free to fail          *)
(*   SpecCan    the single-link CAN-to-Ethernet benchmark                  *)
(*   SpecEither either script, for properties that speak of both           *)
(*   SpecFeeder pd_data_generator.main: pd_get_data, then send_all         *)
(*   SpecLive   Spec with weak fairness of the main thread and of each     *)
(*              worker thread                                              *)
(***************************************************************************)
Next ==
    \/ NetNSInit \/ NetNSEnter({TRUE}) \/ SocketSocket \/ NetNSExit({TRUE})
    \/ Settimeout \/ Bind \/ Connect \/ InitStats \/ SkipIf
    \/ SetRunReceiver \/ SetRunSender \/ ThreadStart \/ Sleep \/ ThreadJoin
    \/ SockClose \/ PrintTestResults
    \/ \E t \in ThreadNames : SendTest(t) \/ SendBody(t) \/ ReceiveTest(t) \/ ReceiveBody(t)

Spec == Init /\ [][Next]_vars

InInit == pc <= Len(M7ETHBenchmark_init)

NextSetup ==
    \/ NetNSInit \/ NetNSEnter(BOOLEAN) \/ SocketSocket \/ NetNSExit(BOOLEAN)
    \/ Settimeout \/ Bind \/ Connect \/ InitStats \/ SkipIf

SpecSetup == Init /\ [][NextSetup]_vars

InitCanOnly ==
    /\ duplex = "half"
    /\ conn_type = "UDP"
    /\ timeout \in Timeouts
    /\ message_size \in MessageSizes
    /\ InitEth
    /\ InitCan
    /\ InitFeed

NextCan ==
    \/ CanSocket \/ CanSettimeout \/ CanBind \/ CanSetRunReceiver
    \/ CanReceiveTest \/ CanReceiveBody \/ CanClose \/ CanPrintTestResults

SpecCan == InitCanOnly /\ [][NextCan]_vars

\* The dual-link benchmark under fair scheduling: the main thread and every
\* worker thread are operating-system threads, each of which keeps being
\* scheduled; sleeps end and socket calls return within their timeout.
MainStep ==
    \/ NetNSInit \/ NetNSEnter({TRUE}) \/ SocketSocket \/ NetNSExit({TRUE})
    \/ Settimeout \/ Bind \/ Connect \/ InitStats \/ SkipIf
    \/ SetRunReceiver \/ SetRunSender \/ ThreadStart \/ Sleep \/ ThreadJoin
    \/ SockClose \/ PrintTestResults
ThreadStep(t) == SendTest(t) \/ SendBody(t) \/ ReceiveTest(t) \/ ReceiveBody(t)

\* The report's content plays no part in scheduling: one test length and one
\* message size.
InitLive ==
    /\ duplex \in {"half", "full"}
    /\ conn_type \in {"UDP", "TCP"}
    /\ timeout = 1
    /\ message_size = 1500
    /\ InitEth
    /\ InitCan
    /\ InitFeed

SpecLive ==
    /\ InitLive /\ [][Next]_vars
    /\ WF_vars(MainStep)
    /\ \A t \in ThreadNames : WF_vars(ThreadStep(t))

\* One invocation runs one of the two scripts: a script takes steps only while
\* the other one has taken none.
EthUntouched == pc = 1 /\ ns_pc = "idle" /\ error = "none"
CanUntouched == can_pc = "socket" /\ can_error = "none"

NextEither ==
    \/ CanUntouched /\ Next
    \/ EthUntouched /\ NextCan

SpecEither == Init /\ [][NextEither]_vars

\* pd_data_generator.main: pd_get_data, then send_all.
InitFeeder ==
    /\ duplex = "half"
    /\ conn_type = "UDP"
    /\ timeout = 1
    /\ message_size = 1500
    /\ InitEth
    /\ InitCan
    /\ \E df \in Datasets, n \in StopAfters : InitFeedWith(df, n)

NextFeeder ==
    \/ PdForEngine \/ PdForWindow \/ PdReturn
    \/ SendAllFor \/ SdSocket \/ SdConnect \/ SdSendall \/ SdIfLabel \/ SdClose
    \/ SendAllCount

SpecFeeder == InitFeeder /\ [][NextFeeder]_vars

(***************************************************************************)
(* Properties.                                                             *)
(***************************************************************************)
Links == {0, 1}
Started(t) == thread[t].st # "unstarted"
StartedThreads(target) == {t \in ThreadNames : Started(t) /\ thread[t].target = target}
NothingStarted ==
    /\ \A t \in ThreadNames : ~Started(t)
    /\ ~run_sender
    /\ ~run_receiver
HasLine(f, key) == \E i \in DOMAIN f.lines : f.lines[i].key = key
LineVal(f, key) == f.lines[CHOOSE i \in DOMAIN f.lines : f.lines[i].key = key].val

\* C1: namespace restoration. Whenever no netns_socket call is in progress
\* (none was made yet, or the last one has returned or raised), the calling
\* thread's active namespace is the one it had when that call was entered,
\* whatever the outcome of socket creation and of either setns call.
C1_NamespaceRestored == ns_pc = "idle" => cur_ns = ns_before

\* C2: setup failures are fatal before any worker exists. While the constructor
\* has not completed, and in particular once it has failed, no thread is
\* started and no flag is true; nothing happens after the failure; and a
\* thread or a true flag exists only with both sockets created, bound and
\* (TCP) connected.
SetupFailed == error # "none" /\ InInit
SetupComplete ==
    /\ Len(sock_ns) = 2
    /\ \A i \in Links : /\ At(sock_ns, i).bound
                        /\ conn_type = "TCP" => At(sock_ns, i).connected
C2_SetupFailureIsFatal ==
    /\ [](InInit => NothingStarted)
    /\ [](~NothingStarted => SetupComplete)
    /\ [][SetupFailed => UNCHANGED <<pc, thread, run_sender, run_receiver>>]_vars

\* C2 witness: the constructor failed (bind of link 1, or a connect) after
\* link 0's socket had been created and bound.
C2_Witness ==
    /\ SetupFailed /\ error = "OSError"
    /\ Len(sock_ns) = 2 /\ At(sock_ns, 0).bound

\* The threads a run starts, by target, read off run_benchmark.
RunThreads(target) ==
    {run_benchmark[i].t : i \in {j \in DOMAIN run_benchmark :
                                   /\ run_benchmark[j].op = "start"
                                   /\ run_benchmark[j].target = target
                                   /\ CondHolds(run_benchmark[j])}}
AllCollectorsStarted == \A c \in RunThreads("receive_packets") : Started(c)
SendingStarted == \E g \in ThreadNames : Started(g) /\ thread[g].target = "send_packets"

\* C3: warm-up ordering. As soon as any Generator thread is started, or any
\* packet has been sent, every Collector thread of the run has already been
\* started; and each Collector is started with run_receiver true and with no
\* Generator started yet.
C3_WarmUpOrdering ==
    /\ [](SendingStarted => AllCollectorsStarted)
    /\ [](sent_packets_eth # <<0, 0>> => AllCollectorsStarted)
    /\ [][\A c \in ThreadNames :
            (~Started(c) /\ thread'[c].st # "unstarted"
               /\ thread'[c].target = "receive_packets")
            => (run_receiver /\ ~SendingStarted)]_vars

\* C3 witness: full duplex, both Collectors started and in their loop, the
\* warm-up sleep not yet over, no Generator started.
C3_Witness ==
    /\ duplex = "full"
    /\ AllCollectorsStarted
    /\ Cardinality(StartedThreads("receive_packets")) = 2
    /\ ~SendingStarted
    /\ Running /\ Cur.op = "sleep"

\* C4: stop ordering. Once sending has started there is no state with
\* run_receiver false and run_sender true, and run_receiver is cleared only in
\* a step that finds run_sender already false.
C4_StopOrdering ==
    /\ [](SendingStarted => ~(run_sender /\ ~run_receiver))
    /\ [][(run_receiver /\ ~run_receiver') => (~run_sender /\ ~run_sender')]_vars

\* C4 witness: the drain interval: senders stopped, receivers still active.
C4_Witness ==
    /\ SendingStarted
    /\ ~run_sender /\ run_receiver
    /\ Running /\ Cur.op = "sleep"

\* C5: join barrier. From the moment the main thread is about to close the
\* first socket, every thread that was started has terminated and has been
\* joined; so no thread is inside a socket call on a closed socket, and no
\* counter changes once a socket is closed or a report is being written.
TeardownBegun ==
    \/ Running /\ Cur.op \in {"close", "print_test_results"}
    \/ \E i \in 1..Len(sock_ns) : sock_ns[i].closed > 0
    \/ \E i \in Links : At(logfile, i).opened
AllJoined ==
    \A t \in ThreadNames : Started(t) => (thread[t].st = "done" /\ thread[t].joined = 1)
C5_JoinBarrier ==
    /\ [](TeardownBegun => AllJoined)
    /\ [](\A t \in ThreadNames : thread[t].st = "body" => ~SocketClosed(thread[t].idx))
    /\ [][TeardownBegun => UNCHANGED <<sent_packets_eth, received_packets_eth>>]_vars

\* C5 witness: a full-duplex run that has written both reports, with all four
\* threads joined and packets counted on both links.
C5_Witness ==
    /\ duplex = "full" /\ pc > Len(Program) /\ error = "none"
    /\ \A t \in ThreadNames : thread[t].joined = 1
    /\ \A i \in Links : /\ At(logfile, i).opened
                        /\ At(sock_ns, i).closed = 1
                        /\ At(sent_packets_eth, i) > 0
                        /\ At(received_packets_eth, i) > 0

\* C6: zero-sent boundary. A report written for a link whose sent counter is 0
\* is produced without ZeroDivisionError and holds the "No packets have been
\* transmitted" warning line.
C6_ZeroSentReport ==
    \A i \in Links :
        (At(logfile, i).opened /\ At(sent_packets_eth, i) = 0)
        => (error # "ZeroDivisionError" /\ HasLine(At(logfile, i), NoTxWarning))

\* C7: loss range. The "Lost packets" value of every report written for a link
\* whose sent counter is greater than 0 lies between 0 and 100.
InRange0To100(q) == /\ q.den > 0
                    /\ 0 <= q.num
                    /\ q.num <= 100 * q.den
C7_LossRange ==
    \A i \in Links :
        (At(logfile, i).opened /\ At(sent_packets_eth, i) > 0)
        => (/\ HasLine(At(logfile, i), "Lost packets")
            /\ InRange0To100(LineVal(At(logfile, i), "Lost packets")))

\* C8 as stated: in half duplex every thread that is started operates on
\* link 0's socket.
C8_HalfDuplexLink0Only ==
    duplex = "half" => \A t \in ThreadNames : Started(t) => thread[t].idx = 0

\* C8 as amended: in half duplex at most one Generator and one Collector are
\* started, the Generator on link 0's socket and the Collector on link 1's
\* socket, and both exist once the start phase is over; sent changes only on
\* link 0 and received only on link 1.
StartPhaseOver == pc > Len(M7ETHBenchmark_init) + Len(StartPhase)
C8_HalfDuplexPolicy ==
    duplex = "half" =>
        /\ \A t \in StartedThreads("send_packets") : thread[t].idx = 0
        /\ \A t \in StartedThreads("receive_packets") : thread[t].idx = 1
        /\ Cardinality(StartedThreads("send_packets")) <= 1
        /\ Cardinality(StartedThreads("receive_packets")) <= 1
        /\ StartPhaseOver => /\ Cardinality(StartedThreads("send_packets")) = 1
                             /\ Cardinality(StartedThreads("receive_packets")) = 1
        /\ At(sent_packets_eth, 1) = 0
        /\ At(received_packets_eth, 0) = 0

\* C8 witness: a half-duplex run in which the Generator has counted a packet on
\* link 0 and the Collector one on link 1.
C8_Witness ==
    /\ duplex = "half"
    /\ Cardinality(StartedThreads("send_packets")) = 1
    /\ Cardinality(StartedThreads("receive_packets")) = 1
    /\ At(sent_packets_eth, 0) > 0
    /\ At(received_packets_eth, 1) > 0

\* C9: thread fan-out. Never more than 4 threads (full) or 2 (half) are
\* started; once the joins are over exactly that many have been started, in full
\* duplex one Generator and one Collector per link, in half duplex one of each;
\* every started thread has then been joined exactly once; and no thread is
\* ever joined twice, or joined without having been started.
FanOut == IF duplex = "full" THEN 4 ELSE 2
JoinsOver == pc > Len(M7ETHBenchmark_init) + Len(StartPhase) + Len(StopPhase)
                  + Len(JoinPhase)
C9_ThreadFanOut ==
    /\ Cardinality({t \in ThreadNames : Started(t)}) <= FanOut
    /\ error # "RuntimeError"
    /\ \A t \in ThreadNames : /\ thread[t].joined <= 1
                              /\ thread[t].joined = 1 => thread[t].st = "done"
    /\ JoinsOver =>
         /\ Cardinality({t \in ThreadNames : Started(t)}) = FanOut
         /\ \A t \in ThreadNames : Started(t) <=> thread[t].joined = 1
         /\ Cardinality(StartedThreads("send_packets")) = FanOut \div 2
         /\ Cardinality(StartedThreads("receive_packets")) = FanOut \div 2
         /\ duplex = "full" =>
              \A i \in Links :
                 /\ \E t \in StartedThreads("send_packets") : thread[t].idx = i
                 /\ \E t \in StartedThreads("receive_packets") : thread[t].idx = i

\* C9 witness: the joins of a full-duplex run are over, four threads joined.
C9_Witness ==
    /\ duplex = "full" /\ JoinsOver
    /\ Cardinality({t \in ThreadNames : thread[t].joined = 1}) = 4

\* C10: self-terminating slow-path collector. A receive timeout clears
\* run_receiver; recvfrom is never called with run_receiver false; run_receiver
\* is cleared by nothing but a timeout of the Collector's own recvfrom, and never
\* by a step that counts a packet; the counter does not change after the loop
\* has ended and is the "Rx frames" value of the report.
CanAfterLoop == can_pc \in {"close", "print_test_results", "done"}
Finished == error # "none" \/ pc > Len(Program)

\* C11: socket lifecycle. No socket is closed more than once, and when the
\* main thread has ended, on whatever path, every socket that was created has
\* been closed exactly once.
C11_SocketsClosedOnce ==
    /\ \A i \in 1..Len(sock_ns) : sock_ns[i].closed <= 1
    /\ Finished => \A i \in 1..Len(sock_ns) : sock_ns[i].closed = 1

\* C12: namespace switch failure is reported. The with block's body runs only
\* in the target namespace; every socket handed back was created in the
\* namespace it was asked for; and a netns_socket call that ends without an
\* exception has put the calling thread back in the namespace it came from.
C12_SwitchFailureReported ==
    /\ (AtStmt("netns_socket") /\ ns_pc = "socket") => cur_ns = NsName(Cur.idx)
    /\ \A i \in 1..Len(sock_ns) : sock_ns[i].ns = NsName(i - 1)
    /\ (ns_pc = "idle" /\ error = "none") => cur_ns = ns_before

ActiveLink(i) == i = 0 \/ duplex = "full"

\* C13: one report per active link. A report is written only for an active
\* link (link 0; link 1 in full duplex), and when the main thread has ended
\* after the joins, a report has been written for every active link.
C13_OneReportPerActiveLink ==
    /\ \A i \in Links : At(logfile, i).opened => ActiveLink(i)
    /\ (Finished /\ JoinsOver) => \A i \in Links : ActiveLink(i) => At(logfile, i).opened

C15_SameLinkPairing ==
    \A i \in Links :
        HasLine(At(logfile, i), "Received packets")
        => /\ LineVal(At(logfile, i), "Injected packets") = At(sent_packets_eth, i)
           /\ LineVal(At(logfile, i), "Received packets") = At(received_packets_eth, i)

\* C15 as amended: the report of link i shows the sent counter of link i and
\* the received counter of the other link, 1 - i, and derives the loss from
\* that pair and the bandwidth from that received counter.
C15_CrossLinkPairing ==
    \A i \in Links :
        HasLine(At(logfile, i), "Received packets")
        => LET snt == sent_packets_eth[i + 1]
               rcv == received_packets_eth[(1 - i) + 1]
           IN  /\ LineVal(At(logfile, i), "Injected packets") = snt
               /\ LineVal(At(logfile, i), "Received packets") = rcv
               /\ LineVal(At(logfile, i), "Lost packets").num = (snt - rcv) * 100
               /\ LineVal(At(logfile, i), "Lost packets").den = snt
               /\ LineVal(At(logfile, i), "Bandwidth").num = rcv * message_size * 8
               /\ LineVal(At(logfile, i), "Bandwidth").den = timeout * 1000000

\* C15 witness: a half-duplex report for link 0, whose Generator counted a
\* packet, while only link 1's Collector received any.
C15_Witness ==
    /\ duplex = "half"
    /\ HasLine(At(logfile, 0), "Lost packets")
    /\ At(sent_packets_eth, 0) > 0
    /\ At(received_packets_eth, 1) > At(received_packets_eth, 0)

\* C16: cooperative shutdown terminates. A Generator that reaches its loop
\* test with run_sender false, and a Collector that reaches it with
\* run_receiver false, ends without a further socket call; a run whose
\* constructor completed reaches the report phase, whatever the socket calls
\* yield; and it reaches it only with every started thread terminated, so
\* every join has returned.
StopSeen(t) ==
    /\ thread[t].st = "test"
    /\ \/ thread[t].target = "send_packets" /\ ~run_sender
       \/ thread[t].target = "receive_packets" /\ ~run_receiver
ReportPhaseReached == At(logfile, 0).opened
C16_CooperativeShutdown ==
    /\ [][\A t \in ThreadNames :
            StopSeen(t) => thread'[t].st \in {"test", "done"}]_vars
    /\ [](ReportPhaseReached =>
            \A t \in RunThreads("send_packets") \cup RunThreads("receive_packets") :
                thread[t].st = "done" /\ thread[t].joined = 1)
    /\ (~InInit) ~> ReportPhaseReached

\* C16 witness: run_sender is already false while a Generator is still inside
\* the send attempt it had begun.
C16_Witness ==
    /\ ~run_sender /\ run_receiver
    /\ \E t \in ThreadNames : /\ thread[t].target = "send_packets"
                              /\ thread[t].st = "body"

\* A step taken by thread t alone, from inside its loop body back to the test.
BodyStepOf(t) ==
    /\ thread[t].st = "body" /\ thread'[t].st = "test"
    /\ \A u \in ThreadNames \ {t} : thread'[u] = thread[u]
    /\ pc' = pc

\* C17: counter ownership. sent[i] changes only in a body step of a Generator
\* of link i, and then by exactly 1, with received and sent[1 - i] unchanged;
\* received[i] changes only in a body step of a Collector of link i, and then
\* by exactly 1, with sent and received[1 - i] unchanged.
C17_CounterOwnership ==
    [][\A i \in Links :
         /\ sent_packets_eth'[i + 1] # sent_packets_eth[i + 1]
            => /\ sent_packets_eth'[i + 1] = sent_packets_eth[i + 1] + 1
               /\ sent_packets_eth'[(1 - i) + 1] = sent_packets_eth[(1 - i) + 1]
               /\ received_packets_eth' = received_packets_eth
               /\ \E t \in ThreadNames : /\ thread[t].target = "send_packets"
                                         /\ thread[t].idx = i
                                         /\ BodyStepOf(t)
         /\ received_packets_eth'[i + 1] # received_packets_eth[i + 1]
            => /\ received_packets_eth'[i + 1] = received_packets_eth[i + 1] + 1
               /\ received_packets_eth'[(1 - i) + 1] = received_packets_eth[(1 - i) + 1]
               /\ sent_packets_eth' = sent_packets_eth
               /\ \E t \in ThreadNames : /\ thread[t].target = "receive_packets"
                                         /\ thread[t].idx = i
                                         /\ BodyStepOf(t)]_vars

\* C17 witness: a full-duplex run in progress in which all four counters have
\* been incremented.
C17_Witness ==
    /\ duplex = "full" /\ run_sender /\ run_receiver
    /\ \A i \in Links : /\ At(sent_packets_eth, i) > 0
                        /\ At(received_packets_eth, i) > 0

\* The loop body of thread t has been executed.
BodyDone(t) == thread[t].st = "body" /\ thread'[t] # thread[t]

\* C18: Generator step. A loop body of a Generator either counts one packet on
\* its own link or leaves sent as it is (the timeout); either way received,
\* both flags and the main thread's exception state stay as they are and the
\* Generator is back at its loop test, neither terminated nor failed.
C18_GeneratorStep ==
    [][\A t \in ThreadNames :
         (thread[t].target = "send_packets" /\ BodyDone(t))
         => /\ thread'[t].st = "test"
            /\ \/ sent_packets_eth' = sent_packets_eth
               \/ sent_packets_eth' =
                    Put(sent_packets_eth, thread[t].idx,
                        At(sent_packets_eth, thread[t].idx) + 1)
            /\ UNCHANGED <<received_packets_eth, run_sender, run_receiver,
                           error, pc>>]_vars

\* C18 witness: a half-duplex Generator is back at its loop test with the
\* test still running, one packet counted, nothing received yet.
C18_Witness ==
    /\ duplex = "half" /\ run_sender
    /\ \E t \in ThreadNames : /\ thread[t].target = "send_packets"
                              /\ thread[t].st = "test"
    /\ sent_packets_eth = <<1, 0>>
    /\ received_packets_eth = <<0, 0>>

FlagWrites(op) == {i \in DOMAIN run_benchmark : run_benchmark[i].op = op}
StartPhaseEnd == Len(M7ETHBenchmark_init) + Len(StartPhase)
StopPhaseEnd == StartPhaseEnd + Len(StopPhase)
C20_FlagOwnership ==
    /\ [](Cardinality(FlagWrites("run_sender")) = 2
          /\ Cardinality(FlagWrites("run_receiver")) = 2)
    /\ [][run_sender' # run_sender
          => (AtStmt("run_sender") /\ pc' = pc + 1 /\ thread' = thread)]_vars
    /\ [][run_receiver' # run_receiver
          => (AtStmt("run_receiver") /\ pc' = pc + 1 /\ thread' = thread)]_vars
    /\ [][((~run_sender /\ run_sender') \/ (~run_receiver /\ run_receiver'))
          => (pc > Len(M7ETHBenchmark_init) /\ pc <= StartPhaseEnd
              /\ \A t \in ThreadNames : ~Started(t))]_vars
    /\ [][((run_sender /\ ~run_sender') \/ (run_receiver /\ ~run_receiver'))
          => (pc > StartPhaseEnd /\ pc <= StopPhaseEnd)]_vars
    /\ [](pc > StopPhaseEnd => (~run_sender /\ ~run_receiver))

\* C20 witness: a half-duplex run past its joins, both flags cleared, after
\* packets were sent.
C20_Witness ==
    /\ duplex = "half" /\ JoinsOver
    /\ ~run_sender /\ ~run_receiver
    /\ At(sent_packets_eth, 0) > 0

\* The receiving phase: a Collector is started, no Generator is, and the
\* start phase is not over.
ReceivingPhase ==
    /\ \E c \in ThreadNames : Started(c) /\ thread[c].target = "receive_packets"
    /\ ~SendingStarted
    /\ pc <= StartPhaseEnd

\* C21 as stated: run_sender is false throughout the receiving phase and is
\* raised only once every Collector has been started and the warm-up sleep is
\* over, the next statement being the start of a Generator.
C21_RaisedAfterWarmUp ==
    /\ [](ReceivingPhase => ~run_sender)
    /\ [][(~run_sender /\ run_sender')
          => /\ AllCollectorsStarted
             /\ Program[pc - 1].op = "sleep"
             /\ Program[pc'].op = "start" /\ Program[pc'].target = "send_packets"]_vars

\* C21: phase of run_sender. run_sender is raised at the beginning of
\* run_benchmark, right after run_receiver and before any thread is started,
\* the next statement being the start of a Collector; it is true throughout
\* the receiving phase, and a Generator is started only with run_sender true,
\* every Collector started and the warm-up sleep over.
C21_RaisedBeforeCollectors ==
    /\ [](ReceivingPhase => run_sender)
    /\ [][(~run_sender /\ run_sender')
          => /\ run_receiver
             /\ \A t \in ThreadNames : ~Started(t)
             /\ Program[pc'].op = "start" /\ Program[pc'].target = "receive_packets"]_vars
    /\ [][\A g \in ThreadNames :
            (~Started(g) /\ thread'[g].st # "unstarted"
               /\ thread'[g].target = "send_packets")
            => (run_sender /\ AllCollectorsStarted
                /\ \E i \in 1..(pc - 1) : Program[i].op = "sleep")]_vars

\* C21 witness: half duplex, the Collector is started and the main thread is
\* at the warm-up sleep with no Generator started, run_sender already true.
C21_Witness ==
    /\ duplex = "half"
    /\ ReceivingPhase
    /\ Running /\ Cur.op = "sleep"
    /\ run_sender

\* C22: throughput formula. Every report that print_test_results was called
\* to write holds a throughput line: in the dual-link script the quotient of
\* received * message_size * 8 by timeout * 1000000, received being the
\* counter the report reads, whatever the sent counter is; in the single-link
\* script that product divided by timeout * 1000, truncated to an integer.
C22_ThroughputFormula ==
    /\ \A i \in Links :
         At(logfile, i).opened
         => /\ HasLine(At(logfile, i), "Bandwidth")
            /\ LineVal(At(logfile, i), "Bandwidth")
                 = Ratio(At(received_packets_eth, i - 1) * message_size * 8,
                         timeout * 1000000)
    /\ can_logfile.opened
       => /\ HasLine(can_logfile, "Rx throughput")
          /\ LineVal(can_logfile, "Rx throughput")
               = (can_received_packets_eth * message_size * 8) \div (timeout * 1000)

\* C23: data and label sent. When a send_data call has ended without a logged
\* failure, the connection has carried the length-prefixed data message
\* followed by the length-prefixed label message, whatever the label is, zero
\* included; after every call the socket it opened has been closed exactly
\* once; and a failure is logged and leads to the finally block, from where
\* send_all goes on.
C23_DataAndLabelSent ==
    /\ []((feed_pc = "sleep" /\ ~logged)
          => wire = << struct_pack(Len(DataPayload(data))), DataPayload(data),
                       struct_pack(Len(LabelPayload(label))), LabelPayload(label) >>)
    /\ [](feed_pc = "sleep" => (feed_socket.closed = 1 /\ ~feed_socket.connected))
    /\ [][(logged' /\ ~logged) => feed_pc' = "close"]_vars

\* C24: bounded send count. When send_all has returned, the send_data calls
\* made are those for the first min(N, length) pairs of the sequence, in
\* order, if --stop-after is a positive integer N, and those for every pair,
\* in order, if it is None.
C24_BoundedSendCount ==
    feed_pc = "done"
    => LET len == Len(data_sequence)
           N   == stop_after.val
       IN  /\ (~stop_after.none /\ N > 0)
              => calls = [i \in 1..(IF N < len THEN N ELSE len) |-> i]
           /\ stop_after.none => calls = [i \in 1..len |-> i]

\* C24 witness: send_all has returned after exactly N calls with pairs left
\* in the sequence.
C24_Witness ==
    /\ feed_pc = "done"
    /\ ~stop_after.none /\ stop_after.val > 1
    /\ Len(calls) = stop_after.val
    /\ Len(data_sequence) > stop_after.val

\* The inputs pd_get_data produced from the cycles of engine e.
InputsOf(e) == SelectSeq(sequences, LAMBDA input : input[1][2] = e)
CyclesOf(input) == [i \in DOMAIN input |-> input[i][1]]

\* C25: windowing. When pd_get_data has returned, an engine of n cycles has
\* no input if n <= 50, and otherwise n - 50 inputs, input k being the 50
\* cycles k .. k+49, the last input covering cycles n-49 .. n.
C25_Windowing ==
    feed_pc \notin {"for_engine", "for_window"}
    => \A e \in {test_df[i].id : i \in DOMAIN test_df} :
         LET n      == Len(Where(test_df, "id", e))
             inputs == InputsOf(e)
         IN  IF n <= 50
             THEN inputs = <<>>
             ELSE /\ Len(inputs) = n - 50
                  /\ \A k \in DOMAIN inputs :
                       CyclesOf(inputs[k]) = [i \in 1..50 |-> k + i - 1]
                  /\ CyclesOf(inputs[Len(inputs)]) = [i \in 1..50 |-> n - 50 + i]

====
